---- MODULE Spec2Model ----
(***************************************************************************)
(* A model of weather.py: the fetcher make_owm_request, the classifier     *)
(* format_alert and the two tools get_alerts and get_forecast.             *)
(*                                                                         *)
(* Python values are modelled as tagged records.  Text that the code       *)
(* operates on (upper(), lower(), substring tests) is a sequence of        *)
(* one-character strings; text that is only passed through is a string.    *)
(* A Python str built by an f-string or a join is a sequence of segments,  *)
(* each segment being a template with its interpolated arguments.          *)
(* Temperatures are whole degrees Celsius.                                 *)
(***************************************************************************)
EXTENDS Integers, Sequences, FiniteSets, TLC

(***************************************************************************)
(* Bounds of the model.                                                    *)
(***************************************************************************)
\* Longest 'list' of forecast periods a response carries.
MaxPeriods == 6

(***************************************************************************)
(* Text: str.lower(), str.upper() and the substring test `in`.             *)
(***************************************************************************)
UpperLetters ==
  <<"A","B","C","D","E","F","G","H","I","J","K","L","M",
    "N","O","P","Q","R","S","T","U","V","W","X","Y","Z">>

LowerLetters ==
  <<"a","b","c","d","e","f","g","h","i","j","k","l","m",
    "n","o","p","q","r","s","t","u","v","w","x","y","z">>

IndexIn(c, letters) ==
  IF \E i \in 1..Len(letters) : letters[i] = c
  THEN CHOOSE i \in 1..Len(letters) : letters[i] = c
  ELSE 0

lower_char(c) ==
  IF IndexIn(c, UpperLetters) # 0 THEN LowerLetters[IndexIn(c, UpperLetters)] ELSE c

upper_char(c) ==
  IF IndexIn(c, LowerLetters) # 0 THEN UpperLetters[IndexIn(c, LowerLetters)] ELSE c

str_lower(s) == [i \in 1..Len(s) |-> lower_char(s[i])]

str_upper(s) == [i \in 1..Len(s) |-> upper_char(s[i])]

\* Python's `needle in hay` on two strings.
str_contains(needle, hay) ==
  \E i \in 0..(Len(hay) - Len(needle)) : SubSeq(hay, i + 1, i + Len(needle)) = needle

(***************************************************************************)
(* Python values.  A JSON field is an atom: absent from its dict, null, a  *)
(* number or a string (cs, a sequence of string pieces).  A Python str is  *)
(* a sequence of segments; a segment is the literal text of a template     *)
(* with the atoms interpolated into it.                                    *)
(***************************************************************************)
Absent == [t |-> "absent", n |-> 0, cs |-> <<>>]

Null == [t |-> "null", n |-> 0, cs |-> <<>>]

Num(n) == [t |-> "num", n |-> n, cs |-> <<>>]

Str(cs) == [t |-> "str", n |-> 0, cs |-> cs]

NoneAtom == [t |-> "None", n |-> 0, cs |-> <<>>]

\* dict.get(key): None when the key is missing, else the value (null is None).
dict_get(field) == IF field.t \in {"absent", "null"} THEN NoneAtom ELSE field

\* dict.get(key, default)
dict_get_default(field, default) ==
  IF field.t = "absent" THEN default
  ELSE IF field.t = "null" THEN NoneAtom
  ELSE field

Segment(template, args) == [template |-> template, args |-> args]

\* str.join on strs: the items concatenated, the separator between neighbours.
RECURSIVE str_join(_, _)
str_join(sep, items) ==
  IF Len(items) = 0 THEN <<>>
  ELSE IF Len(items) = 1 THEN items[1]
  ELSE items[1] \o sep \o str_join(sep, Tail(items))

\* What a call does: return a value or raise.
PyNone == [py |-> "None"]

PyStr(segs) == [py |-> "str", segs |-> segs]

PyJson(body) == [py |-> "json", body |-> body]

Return(v) == [kind |-> "return", value |-> v]

Raise(exc) == [kind |-> "raise", exc |-> exc]

NoOutcome == [kind |-> "pending"]

\* bool(value) of a parsed JSON body, as `not data` evaluates it.
py_truthy(value) ==
  /\ value.py = "json"
  /\ value.body.type \in {"true", "number", "str", "array", "object"}

(***************************************************************************)
(* format_alert                                                            *)
(***************************************************************************)
HeatThreshold == 35

FreezeThreshold == 0

kw_thunderstorm == <<"t","h","u","n","d","e","r","s","t","o","r","m">>

kw_tornado == <<"t","o","r","n","a","d","o">>

kw_hurricane == <<"h","u","r","r","i","c","a","n","e">>

kw_snow == <<"s","n","o","w">>

\* The dict severe_weather_types, in its insertion order.
severe_weather_types ==
  << [key |-> kw_thunderstorm, alert_type |-> "Thunderstorm"],
     [key |-> kw_tornado,      alert_type |-> "Tornado"],
     [key |-> kw_hurricane,    alert_type |-> "Hurricane"],
     [key |-> kw_snow,         alert_type |-> "Heavy Snow"] >>

\* weather_data.get("weather", [{}])[0], for a 'weather' list that is not empty.
first_weather(body) ==
  IF body.weather = "absent"
  THEN [main |-> Absent, description |-> Absent]
  ELSE [main |-> body.wmain, description |-> body.wdesc]

\* The labels appended by the temperature test.
temperature_conditions(temp) ==
  IF dict_get(temp).t = "None" THEN <<>>
  ELSE IF temp.n > HeatThreshold THEN <<"Extreme Heat">>
  ELSE IF temp.n < FreezeThreshold THEN <<"Freezing Conditions">>
  ELSE <<>>

\* key in weather_main or key in main.get("description", "").lower()
keyword_matches(key, weather_main, description) ==
  \/ str_contains(key, weather_main)
  \/ str_contains(key, str_lower(dict_get_default(description, Str(<<>>)).cs))

\* The labels appended by the loop over severe_weather_types.
RECURSIVE keyword_conditions(_, _, _)
keyword_conditions(types, weather_main, description) ==
  IF Len(types) = 0 THEN <<>>
  ELSE (IF keyword_matches(types[1].key, weather_main, description)
        THEN <<types[1].alert_type>> ELSE <<>>)
       \o keyword_conditions(Tail(types), weather_main, description)

\* The loop evaluates description.lower() for a key that is not in weather_main.
description_is_read(weather_main) ==
  \E i \in 1..Len(severe_weather_types) :
     ~str_contains(severe_weather_types[i].key, weather_main)

\* ', '.join(severe_conditions)
join_labels(labels) ==
  str_join(<<", ">>, [i \in 1..Len(labels) |-> <<labels[i]>>])

\* The literal text of lines 68-76 ({} marks an interpolation; the degree sign
\* before C is left out).
AlertTemplate ==
  "\nSevere Weather Alert\nConditions: {}\nLocation: {}\nTemperature: {}C\nDescription: {}\nHumidity: {}%\nWind Speed: {} m/s\n"

\* The f-string returned for a non-empty severe_conditions.
alert_message(body, severe_conditions) ==
  << Segment(AlertTemplate,
       << Str(join_labels(severe_conditions)),
          dict_get_default(body.name, Str(<<"Unknown">>)),
          dict_get(body.temp),
          dict_get_default(first_weather(body).description,
                           Str(<<"No description available">>)),
          dict_get(body.humidity),
          dict_get(body.wind) >>) >>

format_alert(weather_data) ==
  IF ~py_truthy(weather_data) THEN Return(PyNone)
  ELSE IF weather_data.body.type # "object" THEN Raise("AttributeError")
  ELSE IF weather_data.body.weather = "empty" THEN Raise("IndexError")
  ELSE
    LET body == weather_data.body
        main == first_weather(body)
        temp == body.temp
        name == dict_get_default(main.main, Str(<<>>))
    IN IF dict_get(temp).t # "None" /\ temp.t # "num" THEN Raise("TypeError")
       ELSE IF name.t # "str" THEN Raise("AttributeError")
       ELSE
         LET weather_main == str_lower(name.cs)
             description == dict_get_default(main.description, Str(<<>>))
         IN IF description_is_read(weather_main) /\ description.t # "str"
            THEN Raise("AttributeError")
            ELSE
              LET severe_conditions ==
                    temperature_conditions(temp)
                    \o keyword_conditions(severe_weather_types, weather_main,
                                          main.description)
              IN IF Len(severe_conditions) = 0 THEN Return(PyNone)
                 ELSE Return(PyStr(alert_message(body, severe_conditions)))


(***************************************************************************)
(* Texts of the inputs, as sequences of characters.                        *)
(***************************************************************************)
txt_Thunderstorm == <<"T","h","u","n","d","e","r","s","t","o","r","m">>

txt_SNOW == <<"S","N","O","W">>

txt_Clear == <<"C","l","e","a","r">>

txt_Tornado == <<"T","o","r","n","a","d","o">>

txt_thunderstorm_with_heavy_rain == <<"t","h","u","n","d","e","r","s","t","o","r","m"," ","w","i","t","h"," ","h","e","a","v","y"," ","r","a","i","n">>

txt_clear_sky == <<"c","l","e","a","r"," ","s","k","y">>

txt_Light_Snow == <<"L","i","g","h","t"," ","S","n","o","w">>

txt_HURRICANE == <<"H","U","R","R","I","C","A","N","E">>

txt_thundersnow_and_tornado == <<"t","h","u","n","d","e","r","s","n","o","w"," ","a","n","d"," ","t","o","r","n","a","d","o">>

txt_list == <<"l","i","s","t">>

txt_my_list == <<"m","y"," ","l","i","s","t">>

txt_error == <<"e","r","r","o","r">>

st_CA == <<"C","A">>

st_ca == <<"c","a">>

st_Ny == <<"N","y">>

st_NY == <<"N","Y">>

st_XX == <<"X","X">>

st_xx == <<"x","x">>

st_Tx == <<"T","x">>

(***************************************************************************)
(* forecast periods and get_forecast's formatting                          *)
(***************************************************************************)
MaxShown == 5

UnableTemplate == "Unable to fetch forecast data for this location."

ForecastTemplate ==
  "\nTime: {}\nTemperature: {}C\nFeels Like: {}C\nConditions: {} - {}\nHumidity: {}%\nWind: {} m/s\n"

Separator == <<Segment("\n---\n", <<>>)>>

\* d[key]: the exception that subscripting raises, or "" when it raises none.
\* The accesses are in the order lines 131-140 make them.
period_error(p) ==
  IF ~p.has_main THEN "KeyError"
  ELSE IF p.weather = "absent" THEN "KeyError"
  ELSE IF p.weather = "empty" THEN "IndexError"
  ELSE IF \/ p.dt_txt.t = "absent" \/ p.temp.t = "absent" \/ p.feels_like.t = "absent"
          \/ p.wmain.t = "absent" \/ p.wdesc.t = "absent" \/ p.humidity.t = "absent"
          \/ ~p.has_wind \/ p.speed.t = "absent"
       THEN "KeyError"
  ELSE ""

\* The f-string of lines 134-141 for a period that raises nothing.
period_block(p) ==
  << Segment(ForecastTemplate,
       << dict_get(p.dt_txt), dict_get(p.temp), dict_get(p.feels_like),
          dict_get(p.wmain), dict_get(p.wdesc), dict_get(p.humidity),
          dict_get(p.speed) >>) >>

\* first_periods with the slice [:5] left out.
first_periods_unsliced(periods) == periods

\* data["list"][:5]
first_periods(periods) ==
  SubSeq(periods, 1, IF Len(periods) < MaxShown THEN Len(periods) ELSE MaxShown)

\* "list" in data, for a str, a list or a dict.
contains_list(body) ==
  IF body.type = "object" THEN body.list # "absent"
  ELSE IF body.type = "array" THEN \E i \in 1..Len(body.elems) : body.elems[i] = "list"
  ELSE str_contains(txt_list, body.chars)

\* Lines 125-144 of get_forecast: what it does with the fetched data.
format_forecast(data) ==
  IF ~py_truthy(data) THEN Return(PyStr(<<Segment(UnableTemplate, <<>>)>>))
  ELSE IF data.body.type \in {"true", "number"} THEN Raise("TypeError")
  ELSE IF ~contains_list(data.body) THEN Return(PyStr(<<Segment(UnableTemplate, <<>>)>>))
  ELSE IF data.body.type # "object" \/ data.body.list # "list" THEN Raise("TypeError")
  ELSE
    LET shown == first_periods(data.body.periods)
    IN IF \E i \in 1..Len(shown) : period_error(shown[i]) # ""
       THEN Raise(period_error(shown[CHOOSE i \in 1..Len(shown) :
                     /\ period_error(shown[i]) # ""
                     /\ \A j \in 1..(i - 1) : period_error(shown[j]) = ""]))
       ELSE Return(PyStr(str_join(Separator,
                     [i \in 1..Len(shown) |-> period_block(shown[i])])))

(***************************************************************************)
(* make_owm_request and the table of get_alerts                            *)
(***************************************************************************)
OWM_API_BASE == "https://api.openweathermap.org/data/2.5"

API_KEY == "OWM_API_KEY"

\* response.json(): a body of null parses to None.
response_json(body) == IF body.type = "null" THEN PyNone ELSE PyJson(body)

\* make_owm_request_result with an except clause that misses the JSON error.
make_owm_request_result_narrow(response) ==
  IF response.outcome = "ok" THEN Return(response_json(response.body))
  ELSE IF response.outcome = "invalid_json" THEN Raise("JSONDecodeError")
  ELSE Return(PyNone)

\* Lines 23-28: what make_owm_request returns for the response to its GET.
make_owm_request_result(response) ==
  IF response.outcome = "ok" THEN Return(response_json(response.body))
  ELSE Return(PyNone)

\* Lines 19-20 and 24: the request that is sent.
owm_request(url, params) ==
  [url |-> url, params |-> params \cup {<<"appid", API_KEY>>, <<"units", "metric">>}]

\* state_cities.get(key, [])
state_cities(key) ==
  IF key = st_CA THEN <<"Los Angeles", "San Francisco", "Sacramento">>
  ELSE IF key = st_NY THEN <<"New York", "Buffalo", "Albany">>
  ELSE <<>>

\* Line 93
cities_of(st) == state_cities(str_upper(st))

NotSupportedTemplate ==
  "State {} not supported yet. Please add cities to the state_cities mapping."

NoAlertsTemplate == "No severe weather alerts for {}"

\* not_supported_message with the upper-cased key in place of the argument.
not_supported_message_upper(st) ==
  <<Segment(NotSupportedTemplate, <<Str(str_upper(st))>>)>>

\* Line 95
not_supported_message(st) == <<Segment(NotSupportedTemplate, <<Str(st)>>)>>

\* Lines 105-108
alerts_result(st, collected) ==
  IF Len(collected) = 0 THEN <<Segment(NoAlertsTemplate, <<Str(st)>>)>>
  ELSE str_join(Separator, collected)

(***************************************************************************)
(* Inputs: what the callers pass and what the provider answers.            *)
(***************************************************************************)
\* A parsed JSON body.  Only the fields of its type are meaningful.
Body(type) ==
  [type |-> type, chars |-> <<>>, elems |-> <<>>,
   weather |-> "absent", wmain |-> Absent, wdesc |-> Absent,
   temp |-> Absent, humidity |-> Absent, name |-> Absent, wind |-> Absent,
   list |-> "absent", periods |-> <<>>]

\* A current-weather object whose 'weather' list has a first entry.
Observation(wmain, wdesc, temp, name, humidity, wind) ==
  [Body("object") EXCEPT !.weather = "list", !.wmain = wmain, !.wdesc = wdesc,
                         !.temp = temp, !.name = name, !.humidity = humidity,
                         !.wind = wind]

Temperatures == {-1, 0, 1, 35, 36}

TempFields == {Absent, Null, Str(<<"hot">>)} \cup {Num(t) : t \in Temperatures}

NameFields ==
  {Absent, Null, Str(<<>>), Str(txt_Thunderstorm), Str(txt_SNOW), Str(txt_Clear),
   Str(txt_Tornado)}

DescFields ==
  {Absent, Null, Str(txt_thunderstorm_with_heavy_rain), Str(txt_clear_sky),
   Str(txt_Light_Snow), Str(txt_HURRICANE), Str(txt_thundersnow_and_tornado)}

Observations ==
  {Observation(m, d, t, n, Num(80), Num(7)) :
     m \in NameFields, d \in DescFields, t \in TempFields,
     n \in {Absent, Str(<<"Test City">>)}}
  \cup {[Body("object") EXCEPT !.weather = w, !.temp = t, !.name = Str(<<"Test City">>)] :
          w \in {"absent", "empty"}, t \in TempFields}

\* Bodies that are not a JSON object with fields.
OtherBodies ==
  {Body("null"), Body("false"), Body("true"), Body("zero"), Body("number"),
   Body("empty_str"), Body("empty_array"), Body("empty_object"),
   [Body("str") EXCEPT !.chars = txt_error],
   [Body("str") EXCEPT !.chars = txt_my_list],
   [Body("array") EXCEPT !.elems = <<"error">>],
   [Body("array") EXCEPT !.elems = <<"list">>]}

\* What format_alert is called with.
AlertInputs == {PyNone} \cup {PyJson(b) : b \in Observations \cup OtherBodies}

SlotTimes == <<"2025-01-12 12:00:00", "2025-01-12 15:00:00">>

\* A forecast period with every field the template reads.
Period(i) ==
  [has_main |-> TRUE, weather |-> "list", has_wind |-> TRUE,
   dt_txt |-> Str(<<SlotTimes[i]>>), temp |-> Num(23 + i), feels_like |-> Num(24 + i),
   wmain |-> Str(txt_Clear), wdesc |-> Str(txt_clear_sky), humidity |-> Num(65),
   speed |-> Num(3)]

GoodPeriods == {Period(i) : i \in 1..Len(SlotTimes)}

BadPeriods ==
  {[Period(1) EXCEPT !.has_main = FALSE], [Period(1) EXCEPT !.weather = "absent"],
   [Period(1) EXCEPT !.weather = "empty"], [Period(1) EXCEPT !.has_wind = FALSE],
   [Period(1) EXCEPT !.dt_txt = Absent], [Period(1) EXCEPT !.wdesc = Absent]}

GoodLists == UNION {[1..n -> GoodPeriods] : n \in 0..MaxPeriods}

\* Lists of copies of the first period with one period replaced by a bad one.
BadLists ==
  {[i \in 1..n |-> IF i = k THEN bad ELSE Period(1)] :
     n \in 1..MaxPeriods, k \in 1..MaxPeriods, bad \in BadPeriods}

ForecastBodies ==
  {[Body("object") EXCEPT !.list = "list", !.periods = ps] : ps \in GoodLists \cup BadLists}
  \cup {[Body("object") EXCEPT !.list = "null"], Body("object")}
  \cup OtherBodies

Failures == {"network_error", "timeout", "http_status", "invalid_json"}

Response(outcome, body) == [outcome |-> outcome, body |-> body]

FailedResponses == {Response(f, Body("null")) : f \in Failures}

\* The observations a city's request is answered with.
CityBodies ==
  {Observation(Str(txt_Thunderstorm), Str(txt_thunderstorm_with_heavy_rain), Num(36),
               Str(<<"Test City">>), Num(80), Num(7)),
   Observation(Str(txt_Clear), Str(txt_Light_Snow), Num(-1),
               Str(<<"Buffalo">>), Num(80), Num(7)),
   Observation(Str(txt_Clear), Str(txt_clear_sky), Num(20),
               Str(<<"Test City">>), Num(80), Num(7)),
   Observation(Str(txt_Clear), Absent, Absent, Str(<<"Test City">>), Absent, Absent),
   Observation(Str(txt_SNOW), Str(txt_clear_sky), Str(<<"hot">>),
               Str(<<"Test City">>), Num(80), Num(7)),
   [Body("object") EXCEPT !.weather = "empty", !.temp = Num(36)],
   Body("object"), Body("null")}

CityResponses == FailedResponses \cup {Response("ok", b) : b \in CityBodies}

ForecastResponses == FailedResponses \cup {Response("ok", b) : b \in ForecastBodies}

States == {st_CA, st_ca, st_Ny, st_NY, st_XX, st_xx, st_Tx, <<>>}

Coordinates == {<<"34.0522", "-118.2437">>, <<"40.7128", "-74.006">>}

(***************************************************************************)
(* The state of one tool call.                                              *)
(***************************************************************************)
VARIABLES
  pc,           \* "idle", "request" (in make_owm_request, before the GET),
                \* "await_get" (suspended on client.get) or "done"
  caller,       \* the function that was called: "format_alert", "get_alerts",
                \* "get_forecast", "make_owm_request" or "none"
  weather_data, \* the argument of format_alert
  state,        \* the argument of get_alerts
  coords,       \* the arguments of get_forecast
  cities,       \* get_alerts: the list looked up for the state
  city_idx,     \* get_alerts: index of the city of the current loop iteration
  alerts,       \* get_alerts: the list alerts
  pending,      \* make_owm_request: the request about to be sent
  requests,     \* the GETs sent so far, in order
  in_flight,    \* the number of GETs sent and not yet answered
  responses,    \* the answers received so far, in order
  result        \* what the call returned or raised

vars ==
  <<pc, caller, weather_data, state, coords, cities, city_idx, alerts, pending,
    requests, in_flight, responses, result>>

NoRequest == [url |-> "", params |-> {}]

Init ==
  /\ pc = "idle"
  /\ caller = "none"
  /\ weather_data = PyNone
  /\ state = <<>>
  /\ coords = <<"", "">>
  /\ cities = <<>>
  /\ city_idx = 0
  /\ alerts = <<>>
  /\ pending = NoRequest
  /\ requests = <<>>
  /\ in_flight = 0
  /\ responses = <<>>
  /\ result = NoOutcome

\* format_alert(v), called directly.
CallFormatAlert(v) ==
  /\ pc = "idle"
  /\ caller' = "format_alert"
  /\ weather_data' = v
  /\ result' = format_alert(v)
  /\ pc' = "done"
  /\ UNCHANGED <<state, coords, cities, city_idx, alerts, pending, requests,
                 in_flight, responses>>

\* make_owm_request(url, params), called directly: lines 19-22.
CallMakeOwmRequest(url, params) ==
  /\ pc = "idle"
  /\ caller' = "make_owm_request"
  /\ pending' = owm_request(url, params)
  /\ pc' = "request"
  /\ UNCHANGED <<weather_data, state, coords, cities, city_idx, alerts, requests,
                 in_flight, responses, result>>

\* get_alerts(st): lines 87-100, up to the first request.
CallGetAlerts(st) ==
  /\ pc = "idle"
  /\ caller' = "get_alerts"
  /\ state' = st
  /\ cities' = cities_of(st)
  /\ alerts' = <<>>
  /\ IF Len(cities_of(st)) = 0
     THEN /\ result' = Return(PyStr(not_supported_message(st)))
          /\ pc' = "done"
          /\ UNCHANGED <<city_idx, pending>>
     ELSE /\ city_idx' = 1
          /\ pending' = owm_request(OWM_API_BASE \o "/weather", {<<"q", cities_of(st)[1]>>})
          /\ pc' = "request"
          /\ UNCHANGED result
  /\ UNCHANGED <<weather_data, coords, requests, in_flight, responses>>

\* get_forecast(lat, lon): lines 119-123, up to the request.
CallGetForecast(lat, lon) ==
  /\ pc = "idle"
  /\ caller' = "get_forecast"
  /\ coords' = <<lat, lon>>
  /\ pending' = owm_request(OWM_API_BASE \o "/forecast", {<<"lat", lat>>, <<"lon", lon>>})
  /\ pc' = "request"
  /\ UNCHANGED <<weather_data, state, cities, city_idx, alerts, requests, in_flight,
                 responses, result>>

\* Line 24: client.get is called and the coroutine suspends.
ClientGet ==
  /\ pc = "request"
  /\ requests' = Append(requests, pending)
  /\ in_flight' = in_flight + 1
  /\ pc' = "await_get"
  /\ UNCHANGED <<caller, weather_data, state, coords, cities, city_idx, alerts,
                 pending, responses, result>>

\* The GET of a direct make_owm_request is answered: lines 24-28.
MakeOwmRequestDone(response) ==
  /\ pc = "await_get"
  /\ caller = "make_owm_request"
  /\ in_flight' = in_flight - 1
  /\ responses' = Append(responses, response)
  /\ result' = make_owm_request_result(response)
  /\ pc' = "done"
  /\ UNCHANGED <<caller, weather_data, state, coords, cities, city_idx, alerts,
                 pending, requests>>

\* The GET for a city is answered: lines 100-108, up to the next request.
GetAlertsResume(response) ==
  /\ pc = "await_get"
  /\ caller = "get_alerts"
  /\ in_flight' = in_flight - 1
  /\ responses' = Append(responses, response)
  /\ LET data == make_owm_request_result(response)
         alert == IF data.kind = "raise" THEN data ELSE format_alert(data.value)
         collected == IF alert.kind = "return" /\ alert.value.py = "str"
                      THEN Append(alerts, alert.value.segs) ELSE alerts
     IN IF alert.kind = "raise"
        THEN /\ result' = alert
             /\ pc' = "done"
             /\ UNCHANGED <<alerts, city_idx, pending>>
        ELSE /\ alerts' = collected
             /\ IF city_idx = Len(cities)
                THEN /\ result' = Return(PyStr(alerts_result(state, collected)))
                     /\ pc' = "done"
                     /\ UNCHANGED <<city_idx, pending>>
                ELSE /\ city_idx' = city_idx + 1
                     /\ pending' = owm_request(OWM_API_BASE \o "/weather",
                                               {<<"q", cities[city_idx + 1]>>})
                     /\ pc' = "request"
                     /\ UNCHANGED result
  /\ UNCHANGED <<caller, weather_data, state, coords, cities, requests>>

\* The GET of get_forecast is answered: lines 120-144.
GetForecastResume(response) ==
  /\ pc = "await_get"
  /\ caller = "get_forecast"
  /\ in_flight' = in_flight - 1
  /\ responses' = Append(responses, response)
  /\ LET data == make_owm_request_result(response)
     IN result' = IF data.kind = "raise" THEN data ELSE format_forecast(data.value)
  /\ pc' = "done"
  /\ UNCHANGED <<caller, weather_data, state, coords, cities, city_idx, alerts,
                 pending, requests>>

Next ==
  \/ \E v \in AlertInputs : CallFormatAlert(v)
  \/ \E b \in {"/weather", "/forecast"} :
       CallMakeOwmRequest(OWM_API_BASE \o b, {<<"q", "TestCity">>})
  \/ \E st \in States : CallGetAlerts(st)
  \/ \E c \in Coordinates : CallGetForecast(c[1], c[2])
  \/ ClientGet
  \/ \E r \in CityResponses \cup ForecastResponses : MakeOwmRequestDone(r)
  \/ \E r \in CityResponses : GetAlertsResume(r)
  \/ \E r \in ForecastResponses : GetForecastResume(r)

Spec == Init /\ [][Next]_vars

(***************************************************************************)
(* Vocabulary of the properties.                                           *)
(***************************************************************************)
Returned(out) == out.kind = "return"

ReturnedStr(out) == out.kind = "return" /\ out.value.py = "str"

ReturnedNone(out) == out.kind = "return" /\ out.value.py = "None"

\* The labels on the Conditions line of a returned alert.
HasLabel(out, label) ==
  /\ ReturnedStr(out)
  /\ Len(out.value.segs) = 1
  /\ out.value.segs[1].template = AlertTemplate
  /\ \E i \in 1..Len(out.value.segs[1].args[1].cs) :
        out.value.segs[1].args[1].cs[i] = label

FormatAlertDone == pc = "done" /\ caller = "format_alert"

GetAlertsDone == pc = "done" /\ caller = "get_alerts"

GetForecastDone == pc = "done" /\ caller = "get_forecast"

IsObservation(v) == v.py = "json" /\ v.body.type = "object"

\* The state code is a key of the table, letter case ignored.
Supported(st) == \E key \in {st_CA, st_NY} : str_lower(key) = str_lower(st)

\* A keyword occurs, in any letter case, in the condition name or the description.
Occurs(key, body) ==
  \/ /\ body.weather = "list" /\ body.wmain.t = "str"
     /\ str_contains(str_upper(key), str_upper(body.wmain.cs))
  \/ /\ body.weather = "list" /\ body.wdesc.t = "str"
     /\ str_contains(str_upper(key), str_upper(body.wdesc.cs))

(***************************************************************************)
(* C1: for every observation with a numeric temperature t that is passed   *)
(* to format_alert, the alert carries "Extreme Heat" if t > 35, "Freezing  *)
(* Conditions" if t < 0, neither label if 0 <= t <= 35, and never both.    *)
(***************************************************************************)
C1_TemperatureLabels ==
  (FormatAlertDone /\ IsObservation(weather_data) /\ weather_data.body.temp.t = "num")
  => LET t == weather_data.body.temp.n
     IN /\ t > 35 => HasLabel(result, "Extreme Heat")
        /\ t < 0 => HasLabel(result, "Freezing Conditions")
        /\ (0 =< t /\ t =< 35) =>
              /\ ~HasLabel(result, "Extreme Heat")
              /\ ~HasLabel(result, "Freezing Conditions")
        /\ ~(HasLabel(result, "Extreme Heat") /\ HasLabel(result, "Freezing Conditions"))

\* C1, restricted to the calls of format_alert that return: there the
\* temperature labels are as C1 states.
C1_WhenReturned ==
  (FormatAlertDone /\ Returned(result)) => C1_TemperatureLabels

(***************************************************************************)
(* C2: get_alerts with a state code that is not in the table, letter case  *)
(* ignored, sends no request and returns the message that names the state  *)
(* code as the caller gave it and says "not supported yet".                *)
(***************************************************************************)
C2_UnsupportedState ==
  (caller = "get_alerts" /\ ~Supported(state))
  => /\ pc = "done"
     /\ requests = <<>>
     /\ in_flight = 0
     /\ ReturnedStr(result)
     /\ Len(result.value.segs) = 1
     /\ result.value.segs[1].template = NotSupportedTemplate
     /\ result.value.segs[1].args = <<Str(state)>>

C2_Witness ==
  /\ GetAlertsDone
  /\ state = st_xx
  /\ requests = <<>>
  /\ ReturnedStr(result)

(***************************************************************************)
(* C3: whatever the provider answers, get_alerts and get_forecast end by   *)
(* returning a string; no exception reaches the caller.                    *)
(***************************************************************************)
C3_AlwaysReturnsString ==
  (pc = "done" /\ caller \in {"get_alerts", "get_forecast"}) => ReturnedStr(result)

(***************************************************************************)
(* C4: make_owm_request sends exactly one GET per call and never a second  *)
(* one; when the GET fails in any way it returns None and does not raise;  *)
(* when the GET succeeds it returns the parsed body.                       *)
(***************************************************************************)
\* The calls of make_owm_request made so far.
CallsMade ==
  IF caller = "get_alerts" THEN city_idx
  ELSE IF caller \in {"get_forecast", "make_owm_request"} THEN 1
  ELSE 0

C4_FetchNeverRaises ==
  /\ Len(requests) = CallsMade - (IF pc = "request" THEN 1 ELSE 0)
  /\ Len(requests) = Len(responses) + in_flight
  /\ (pc = "done" /\ caller = "make_owm_request")
     => /\ Len(requests) = 1
        /\ Returned(result)
        /\ responses[1].outcome # "ok" => result.value = PyNone
        /\ responses[1].outcome = "ok" =>
             result.value = (IF responses[1].body.type = "null" THEN PyNone
                             ELSE [py |-> "json", body |-> responses[1].body])

C4_Witness ==
  /\ pc = "done"
  /\ caller = "make_owm_request"
  /\ responses[1].outcome = "invalid_json"
  /\ Len(requests) = 1
  /\ result = Return(PyNone)

(***************************************************************************)
(* C5: for a fetched forecast whose 'list' holds n well-formed periods,    *)
(* get_forecast renders exactly min(5, n) blocks, those of the first       *)
(* min(5, n) periods in their order, with the separator between them.      *)
(***************************************************************************)
WellFormed(p) ==
  /\ p.has_main /\ p.has_wind /\ p.weather = "list"
  /\ \A f \in {p.dt_txt, p.temp, p.feels_like, p.wmain, p.wdesc, p.humidity, p.speed} :
        f.t \in {"num", "str"}

\* The forecast that get_forecast fetched has a list of well-formed periods.
FetchedWellFormedList ==
  /\ GetForecastDone
  /\ responses[1].outcome = "ok"
  /\ responses[1].body.type = "object"
  /\ responses[1].body.list = "list"
  /\ \A i \in 1..Len(responses[1].body.periods) : WellFormed(responses[1].body.periods[i])

C5_FirstFivePeriods ==
  FetchedWellFormedList
  => LET periods == responses[1].body.periods
         n == Len(periods)
         m == IF n < 5 THEN n ELSE 5
     IN /\ ReturnedStr(result)
        /\ Len(result.value.segs) = (IF m = 0 THEN 0 ELSE 2 * m - 1)
        /\ \A k \in 1..m :
             /\ result.value.segs[2 * k - 1].template = ForecastTemplate
             /\ result.value.segs[2 * k - 1].args =
                  << periods[k].dt_txt, periods[k].temp, periods[k].feels_like,
                     periods[k].wmain, periods[k].wdesc, periods[k].humidity,
                     periods[k].speed >>
        /\ \A k \in 1..(m - 1) : result.value.segs[2 * k].template = "\n---\n"

C5_Witness ==
  /\ FetchedWellFormedList
  /\ Len(responses[1].body.periods) > 5
  /\ responses[1].body.periods[1] # responses[1].body.periods[2]
  /\ ReturnedStr(result)
  /\ Len(result.value.segs) = 9

(***************************************************************************)
(* C6: get_forecast returns exactly the message "Unable to fetch forecast  *)
(* data for this location." whenever its fetch fails or the fetched        *)
(* response has no top-level 'list', and in no other case.                 *)
(***************************************************************************)
\* The response is a failure, or a body without a top-level 'list'.
NoForecastList(response) ==
  \/ response.outcome # "ok"
  \/ response.body.type # "object"
  \/ response.body.list = "absent"

C6_UnableMessage ==
  GetForecastDone
  => (result = Return(PyStr(<<Segment(UnableTemplate, <<>>)>>))
        <=> NoForecastList(responses[1]))

\* C6, restricted to the calls of get_forecast that return.
C6_WhenReturned ==
  (GetForecastDone /\ Returned(result)) => C6_UnableMessage

(***************************************************************************)
(* C7: format_alert adds the label of a keyword exactly when the keyword   *)
(* occurs, in any letter case, in the condition name or the description;   *)
(* each keyword independently of the others and of the temperature.        *)
(***************************************************************************)
C7_KeywordLabels ==
  (FormatAlertDone /\ IsObservation(weather_data))
  => \A i \in 1..Len(severe_weather_types) :
        Occurs(severe_weather_types[i].key, weather_data.body)
          <=> HasLabel(result, severe_weather_types[i].alert_type)

\* C7, restricted to the calls of format_alert that return.
C7_WhenReturned ==
  (FormatAlertDone /\ Returned(result)) => C7_KeywordLabels

(***************************************************************************)
(* C8: format_alert returns None exactly when no label is accumulated: for *)
(* an empty or absent input, and for every observation with no temperature *)
(* out of range and no matching keyword; otherwise it returns a message.   *)
(***************************************************************************)
\* The input is an observation for which a label is accumulated.
SomeLabelDue(v) ==
  /\ IsObservation(v)
  /\ \/ v.body.temp.t = "num" /\ (v.body.temp.n > 35 \/ v.body.temp.n < 0)
     \/ \E i \in 1..Len(severe_weather_types) :
           Occurs(severe_weather_types[i].key, v.body)

C8_NoneIffNoLabel ==
  (FormatAlertDone /\ (IsObservation(weather_data) \/ ~py_truthy(weather_data)))
  => /\ ~SomeLabelDue(weather_data) => ReturnedNone(result)
     /\ SomeLabelDue(weather_data) => ReturnedStr(result)

\* C8, restricted to the calls of format_alert that return.
C8_WhenReturned ==
  (FormatAlertDone /\ Returned(result)) => C8_NoneIffNoLabel

(***************************************************************************)
(* C9: for a supported state, get_alerts returns "No severe weather alerts *)
(* for <state>" iff no city's observation produced an alert; otherwise it  *)
(* returns the alerts of exactly the severe cities, in table order, joined *)
(* by the separator.                                                       *)
(***************************************************************************)
\* The data make_owm_request hands over for a response.
DataOf(response) ==
  IF response.outcome = "ok" /\ response.body.type # "null"
  THEN [py |-> "json", body |-> response.body] ELSE PyNone

\* The number of segments of the answer: one alert and one separator per
\* severe city, less the last separator.
RECURSIVE SevereCount(_)
SevereCount(rs) ==
  IF Len(rs) = 0 THEN 0
  ELSE (IF SomeLabelDue(DataOf(rs[1])) THEN 1 ELSE 0) + SevereCount(Tail(rs))

\* The k-th severe response.
RECURSIVE SevereAt(_, _)
SevereAt(rs, k) ==
  IF SomeLabelDue(DataOf(rs[1]))
  THEN (IF k = 1 THEN rs[1] ELSE SevereAt(Tail(rs), k - 1))
  ELSE SevereAt(Tail(rs), k)

C9_AlertsOfSevereCities ==
  (GetAlertsDone /\ Supported(state))
  => /\ ReturnedStr(result)
     /\ Len(responses) = Len(cities)
     /\ LET n == SevereCount(responses)
        IN IF n = 0
           THEN result.value.segs = <<Segment(NoAlertsTemplate, <<Str(state)>>)>>
           ELSE /\ Len(result.value.segs) = 2 * n - 1
                /\ \A k \in 1..n :
                     /\ result.value.segs[2 * k - 1].template = AlertTemplate
                     /\ result.value.segs[2 * k - 1].args[2] =
                          SevereAt(responses, k).body.name
                /\ \A k \in 1..(n - 1) : result.value.segs[2 * k].template = "\n---\n"

\* C9, restricted to the calls of get_alerts that return.
C9_WhenReturned ==
  (GetAlertsDone /\ Returned(result)) => C9_AlertsOfSevereCities

(***************************************************************************)
(* C10: for a supported state, get_alerts fetches every city of the list   *)
(* exactly once, in table order, one request at a time; a fetch that fails *)
(* counts as no alert and does not stop the remaining fetches.             *)
(***************************************************************************)
CityOf(request) == CHOOSE c \in {p[2] : p \in {q \in request.params : q[1] = "q"}} : TRUE

C10_EveryCityOnceInOrder ==
  /\ in_flight \in {0, 1}
  /\ (caller = "get_alerts")
     => /\ Len(requests) =< Len(cities)
        /\ \A i \in 1..Len(requests) : CityOf(requests[i]) = cities[i]
  /\ (GetAlertsDone /\ Supported(state)) => Len(requests) = Len(cities)

\* C10, restricted to the calls of get_alerts that return.
C10_WhenReturned ==
  (GetAlertsDone /\ Returned(result)) => C10_EveryCityOnceInOrder

====
